---- MODULE Spec2Model ----
(***************************************************************************)
(* Session concurrency and state layer of the AgentryLab Telegram bot:     *)
(*   - the thread-to-event-loop bridge AsyncTelegramAdapter                *)
(*     ._iterate_lab_stream (bot/adapters/agentrylab.py),                  *)
(*   - the adapter's draining loop _run_conversation,                      *)
(*   - the per-user flow state (bot/states/conversation.py),               *)
(*   - ConversationService (bot/services/conversation_service.py) and the  *)
(*     handlers that drive it.                                             *)
(* BridgeSpec runs one bridge in isolation; ExecutorSpec runs the thread   *)
(* pool the bridges of one adapter share; Spec runs the sessions of a      *)
(* user (service, state manager, adapter, handlers, reclaim and clock);   *)
(* StreamingSpec runs a session together with its streaming tasks and     *)
(* the user's input; MessageSpec runs the text-message handler,           *)
(* CommandSpec the /pause, /resume and /stop commands, IsolationSpec two   *)
(* users on one service.                                                   *)
(***************************************************************************)
EXTENDS Integers, Sequences, FiniteSets, TLC

VARIABLES
    \* ---- one bridge (_iterate_lab_stream) ----
    lab_stream,      \* the events lab.stream() will yield, in order
    lab_raises,      \* TRUE: lab.stream() raises after yielding them
    producer_pc,     \* position of the worker thread running producer()
    yielded,         \* number of events lab.stream() has yielded so far
    loop_calls,      \* coroutines handed to the loop by run_coroutine_threadsafe
    queue,           \* the asyncio.Queue of the bridge
    consumer_pc,     \* position of the async generator's consumer
    received,        \* items the consumer was handed by `yield item`
    raised,          \* number of exceptions re-raised to the consumer
    after_end,       \* __anext__ calls made after the generator finished
    \* ---- the executor shared by the bridges (_stream_executor) ----
    futures,         \* state of the Future of each submitted producer()
    work_queue,      \* ThreadPoolExecutor._work_queue: producers not yet taken
    stream_futures,  \* keys of AsyncTelegramAdapter._stream_futures
    stop_called,     \* bridges whose stop_conversation has been called
    \* ---- state manager, adapter sessions and service ----
    now,                  \* datetime.now(timezone.utc), in hours
    user_states,          \* ConversationStateManager._user_states
    conversations,        \* TelegramAdapter._conversations (user_id, status)
    event_streams,        \* TelegramAdapter._event_streams
    user_message_queues,  \* TelegramAdapter._user_message_queues
    running_tasks,        \* position of each _run_conversation task
    engine,               \* per conversation: events yielded, texts posted
    streaming_tasks,      \* ConversationService._streaming_tasks
    tasks,                \* every task made by start_conversation_streaming
    sink,                 \* what event_handler was called with, per conversation
    stopped_at,           \* events the engine had handed over when stop was called
    last,                 \* the operation that made this state, and its result
    handler_states        \* _user_states of handlers/conversation.state_manager

one_bridge_vars == <<lab_stream, lab_raises, producer_pc, yielded, loop_calls,
                     queue, consumer_pc, received, raised, after_end>>

executor_vars == <<futures, work_queue, stream_futures, stop_called>>

bridge_vars == <<lab_stream, lab_raises, producer_pc, yielded, loop_calls,
                 queue, consumer_pc, received, raised, after_end,
                 executor_vars>>

service_vars == <<now, user_states, conversations, event_streams,
                  user_message_queues, running_tasks, engine,
                  streaming_tasks, tasks, sink, stopped_at, last,
                  handler_states>>

vars == <<bridge_vars, service_vars>>

\* ---------------------------------------------------------------- bounds
MaxStream == 3      \* longest lab.stream() sequence explored
MaxAfterEnd == 2    \* __anext__ calls explored after the generator finished
MaxConv == 2        \* conversations the adapter is asked to create
MaxEvents == 2      \* events the engines yield, over all conversations
MaxTasks == 2       \* tasks made by start_conversation_streaming
MaxTime == 1        \* hours the clock advances
MaxBridges == 5     \* bridges opened on one adapter

\* AsyncTelegramAdapter.__init__: max_workers of the ThreadPoolExecutor.
max_workers == 4

\* What the last call of start_conversation, resume_conversation or
\* handle_user_input gave its caller: result is "id" (a conversation id, in
\* conv), "True", "False", "None" or "BotError" (the call raised).  Every
\* other step records Internal.
Internal == [op |-> "internal", result |-> "None", user |-> "", conv |-> 0]
Result(op, result, u, c) ==
    [op |-> op, result |-> result, user |-> u, conv |-> c]

\* ------------------------------------------------------------ the bridge
RawEvents == {"e1", "e2"}
SENTINEL == "_SENTINEL"
EXC == "exc"

IsException(item) == item = EXC

SeqsUpTo(S, n) == UNION {[1..k -> S] : k \in 0..n}

\* asyncio.Queue.get: the oldest item.
QueueGetNewest(q) == q[Len(q)]
QueueGet(q) == Head(q)

QueueRest(q) == Tail(q)

\* The body of the consumer loop for one dequeued item (lines 49-54):
\* the new consumer position, what was yielded and what was raised.
ConsumerStepNoRaise(item) ==
    IF item = SENTINEL
    THEN [pc |-> "ended", yield |-> <<>>, raise |-> 0]
    ELSE [pc |-> "get", yield |-> <<item>>, raise |-> 0]
ConsumerStep(item) ==
    IF item = SENTINEL
    THEN [pc |-> "ended", yield |-> <<>>, raise |-> 0]
    ELSE IF IsException(item)
         THEN [pc |-> "raised", yield |-> <<>>, raise |-> 1]
         ELSE [pc |-> "get", yield |-> <<item>>, raise |-> 0]

\* ConversationStateManager(), AsyncTelegramAdapter() and
\* ConversationService(adapter, state_manager) right after construction.
ServiceInit ==
    /\ now = 0
    /\ user_states = [u \in {} |-> 0]
    /\ conversations = <<>>
    /\ event_streams = <<>>
    /\ user_message_queues = <<>>
    /\ running_tasks = <<>>
    /\ engine = <<>>
    /\ streaming_tasks = [c \in {} |-> 0]
    /\ tasks = <<>>
    /\ sink = <<>>
    /\ stopped_at = [c \in {} |-> 0]
    /\ last = Internal
    /\ handler_states = [u \in {} |-> 0]

\* ThreadPoolExecutor(max_workers) and _stream_futures = {} (lines 20-24).
ExecutorInit ==
    /\ futures = <<>>
    /\ work_queue = <<>>
    /\ stream_futures = {}
    /\ stop_called = {}

BridgeInit ==
    /\ lab_stream \in SeqsUpTo(RawEvents, MaxStream)
    /\ lab_raises \in BOOLEAN
    /\ producer_pc = "next"
    /\ yielded = 0
    /\ loop_calls = <<>>
    /\ queue = <<>>
    /\ consumer_pc = "get"
    /\ received = <<>>
    /\ raised = 0
    /\ after_end = 0
    /\ ExecutorInit
    /\ ServiceInit

\* The worker thread asks lab.stream() for the next event (line 37) and
\* hands the outcome to the loop with run_coroutine_threadsafe (38, 40, 42).
ProducerNext ==
    /\ producer_pc = "next"
    /\ IF yielded < Len(lab_stream)
       THEN /\ yielded' = yielded + 1
            /\ loop_calls' = Append(loop_calls, lab_stream[yielded + 1])
            /\ producer_pc' = "put_event"
       ELSE IF lab_raises
            THEN /\ loop_calls' = Append(loop_calls, EXC)
                 /\ producer_pc' = "put_exc"
                 /\ UNCHANGED yielded
            ELSE /\ loop_calls' = Append(loop_calls, SENTINEL)
                 /\ producer_pc' = "put_sentinel"
                 /\ UNCHANGED yielded
    /\ UNCHANGED <<lab_stream, lab_raises, queue, consumer_pc, received,
                   raised, after_end>>
    /\ UNCHANGED executor_vars
    /\ UNCHANGED service_vars

\* The event loop runs a scheduled queue.put(item) coroutine.
LoopRunPut ==
    /\ loop_calls # <<>>
    /\ queue' = Append(queue, Head(loop_calls))
    /\ loop_calls' = Tail(loop_calls)
    /\ UNCHANGED <<lab_stream, lab_raises, producer_pc, yielded, consumer_pc,
                   received, raised, after_end>>
    /\ UNCHANGED executor_vars
    /\ UNCHANGED service_vars

\* .result() returns in the worker thread once its coroutine has run.
ProducerResume ==
    /\ producer_pc \in {"put_event", "put_exc", "put_sentinel"}
    /\ loop_calls = <<>>
    /\ IF producer_pc = "put_event"
       THEN producer_pc' = "next" /\ UNCHANGED loop_calls
       ELSE IF producer_pc = "put_exc"
            THEN /\ loop_calls' = Append(loop_calls, SENTINEL)
                 /\ producer_pc' = "put_sentinel"
            ELSE producer_pc' = "done" /\ UNCHANGED loop_calls
    /\ UNCHANGED <<lab_stream, lab_raises, yielded, queue, consumer_pc,
                   received, raised, after_end>>
    /\ UNCHANGED executor_vars
    /\ UNCHANGED service_vars

\* The consumer's `item = await queue.get()` completes (lines 48-54).
ConsumerGet ==
    /\ consumer_pc = "get"
    /\ queue # <<>>
    /\ LET step == ConsumerStep(QueueGet(queue)) IN
        /\ consumer_pc' = step.pc
        /\ received' = received \o step.yield
        /\ raised' = raised + step.raise
    /\ queue' = QueueRest(queue)
    /\ UNCHANGED <<lab_stream, lab_raises, producer_pc, yielded, loop_calls,
                   after_end>>
    /\ UNCHANGED executor_vars
    /\ UNCHANGED service_vars

\* __anext__ on the finished generator: StopAsyncIteration, nothing else.
ConsumerNextAfterEnd ==
    /\ consumer_pc \in {"ended", "raised"}
    /\ after_end < MaxAfterEnd
    /\ after_end' = after_end + 1
    /\ UNCHANGED <<lab_stream, lab_raises, producer_pc, yielded, loop_calls,
                   queue, consumer_pc, received, raised>>
    /\ UNCHANGED executor_vars
    /\ UNCHANGED service_vars

BridgeNext ==
    \/ ProducerNext
    \/ LoopRunPut
    \/ ProducerResume
    \/ ConsumerGet
    \/ ConsumerNextAfterEnd

BridgeSpec == BridgeInit /\ [][BridgeNext]_vars

\* The worker thread is scheduled by the OS, the loop runs what was handed
\* to it, and the consumer (`async for` in _run_conversation) keeps pulling.
BridgeFairSpec ==
    /\ BridgeSpec
    /\ WF_vars(ProducerNext)
    /\ WF_vars(LoopRunPut)
    /\ WF_vars(ProducerResume)
    /\ WF_vars(ConsumerGet)

\* ----------------------------------------------------------- the executor
\* Every bridge submits its producer() to the one ThreadPoolExecutor of the
\* adapter.  Bridge b is the bridge of the b-th conversation: _run_conversation
\* runs once per conversation and opens one bridge.  A Future is PENDING
\* until a worker thread takes it, RUNNING while producer() runs, then
\* FINISHED; cancel() succeeds on a PENDING future only.
Bridges == 1..Len(futures)

RunningWorkers == {b \in Bridges : futures[b] = "RUNNING"}

\* Future.cancel(): a future that is running or done cannot be cancelled.
future_cancel(state) == IF state = "PENDING" THEN "CANCELLED" ELSE state

\* _iterate_lab_stream up to its first await, lines 32-45: submit() queues
\* the producer and returns its Future at once.
OpenBridge ==
    /\ Len(futures) < MaxBridges
    /\ futures' = Append(futures, "PENDING")
    /\ work_queue' = Append(work_queue, Len(futures) + 1)
    /\ stream_futures' = stream_futures \cup {Len(futures) + 1}
    /\ UNCHANGED stop_called
    /\ UNCHANGED one_bridge_vars
    /\ UNCHANGED service_vars

\* A worker thread of the pool that is not running a producer takes the
\* oldest queued producer; the pool has at most max_workers threads.  A
\* producer whose future was cancelled is dropped without being run.
WorkerTake ==
    /\ work_queue # <<>>
    /\ Cardinality(RunningWorkers) < max_workers
    /\ LET b == Head(work_queue)
       IN  futures' = IF futures[b] = "PENDING"
                      THEN [futures EXCEPT ![b] = "RUNNING"]
                      ELSE futures
    /\ work_queue' = Tail(work_queue)
    /\ UNCHANGED <<stream_futures, stop_called>>
    /\ UNCHANGED one_bridge_vars
    /\ UNCHANGED service_vars

\* producer() returns: lab.stream() is exhausted or raised and the sentinel
\* was put (lines 36-42).
ProducerReturn(b) ==
    /\ futures[b] = "RUNNING"
    /\ futures' = [futures EXCEPT ![b] = "FINISHED"]
    /\ UNCHANGED <<work_queue, stream_futures, stop_called>>
    /\ UNCHANGED one_bridge_vars
    /\ UNCHANGED service_vars

\* The finally of the generator, lines 55-56, once the consumer has got the
\* sentinel or an exception from the producer.
GeneratorFinally(b) ==
    /\ b \in stream_futures
    /\ futures[b] \in {"RUNNING", "FINISHED"}
    /\ stream_futures' = stream_futures \ {b}
    /\ UNCHANGED <<futures, work_queue, stop_called>>
    /\ UNCHANGED one_bridge_vars
    /\ UNCHANGED service_vars

\* AsyncTelegramAdapter.stop_conversation, lines 142-146.
StopConversation(b) ==
    /\ b \notin stop_called
    /\ stop_called' = stop_called \cup {b}
    /\ stream_futures' = stream_futures \ {b}
    /\ futures' = IF b \in stream_futures
                  THEN [futures EXCEPT ![b] = future_cancel(@)]
                  ELSE futures
    /\ UNCHANGED work_queue
    /\ UNCHANGED one_bridge_vars
    /\ UNCHANGED service_vars

ExecutorNext ==
    \/ OpenBridge
    \/ WorkerTake
    \/ \E b \in Bridges : ProducerReturn(b)
    \/ \E b \in Bridges : GeneratorFinally(b)
    \/ \E b \in Bridges : StopConversation(b)

\* ------------------------------------------------------- the flow state
\* A flow state value is either a member of the enum ConversationState
\* (bot/states/conversation.py) or one of the plain strings of the class
\* ConversationStates (bot/constants.py).  The enum is a plain Enum, so a
\* member never equals, and never hashes like, the string of its value.
EnumMember(v) == [cls |-> "ConversationState", value |-> v]
StrConst(v) == [cls |-> "str", value |-> v]

StateValues == {"idle", "selecting_preset", "entering_topic",
                "confirming_topic", "starting_conversation",
                "in_conversation", "waiting_for_user_input",
                "conversation_paused", "conversation_ended", "error"}

ConversationState == {EnumMember(v) : v \in StateValues}

None == "None"
NoConv == 0

\* UserConversationState(user_id=...) at time t (lines 25-38).
UserConversationState(t) ==
    [state |-> EnumMember("idle"), selected_preset |-> None,
     selected_topic |-> None, conversation_id |-> NoConv,
     last_activity |-> t, metadata |-> {}]

is_active(st) ==
    st.state \in {EnumMember("selecting_preset"), EnumMember("entering_topic"),
                  EnumMember("confirming_topic"),
                  EnumMember("starting_conversation"),
                  EnumMember("in_conversation"),
                  EnumMember("waiting_for_user_input"),
                  EnumMember("conversation_paused")}

is_in_conversation(st) ==
    st.state \in {EnumMember("in_conversation"),
                  EnumMember("waiting_for_user_input"),
                  EnumMember("conversation_paused")}

can_start_new_conversation(st) ==
    st.state \in {EnumMember("idle"), EnumMember("entering_topic"),
                  EnumMember("conversation_ended"), EnumMember("error")}

\* ConversationStateManager: each operator gives _user_states after the call
\* made at time t.  get_user_state creates the record on first reference.
get_user_state_fresh(us, u, t) ==
    [k \in DOMAIN us \cup {u} |->
        IF k = u THEN UserConversationState(t) ELSE us[k]]
get_user_state(us, u, t) ==
    IF u \in DOMAIN us THEN us ELSE us @@ (u :> UserConversationState(t))

set_user_state_stale(us, u, s, t) ==
    [get_user_state(us, u, t) EXCEPT ![u].state = s]
set_user_state(us, u, s, t) ==
    [get_user_state(us, u, t) EXCEPT ![u].state = s, ![u].last_activity = t]

set_user_preset(us, u, preset, t) ==
    [get_user_state(us, u, t) EXCEPT ![u].selected_preset = preset,
                                     ![u].last_activity = t]

set_user_topic(us, u, topic, t) ==
    [get_user_state(us, u, t) EXCEPT ![u].selected_topic = topic,
                                     ![u].last_activity = t]

set_user_conversation_id(us, u, c, t) ==
    [get_user_state(us, u, t) EXCEPT ![u].conversation_id = c,
                                     ![u].last_activity = t]

add_user_metadata(us, u, key, t) ==
    [get_user_state(us, u, t) EXCEPT ![u].metadata = @ \cup {key},
                                     ![u].last_activity = t]

\* UserConversationState.reset, field by field; clear_metadata empties the
\* dictionary and update_activity stamps the record.
reset_keeps_conversation(st, t) ==
    [st EXCEPT !.state = EnumMember("idle"), !.selected_preset = None,
               !.selected_topic = None, !.metadata = {}, !.last_activity = t]
reset(st, t) ==
    [st EXCEPT !.state = EnumMember("idle"), !.selected_preset = None,
               !.selected_topic = None, !.conversation_id = NoConv,
               !.metadata = {}, !.last_activity = t]

reset_user_state(us, u, t) ==
    [get_user_state(us, u, t) EXCEPT ![u] = reset(@, t)]

\* cleanup_inactive_users: the users it deletes, with cutoff = now - max_age.
inactive_users(us, t, max_age) ==
    {u \in DOMAIN us : us[u].last_activity < t - max_age /\ ~is_active(us[u])}

cleanup_inactive_users(us, t, max_age) ==
    [u \in DOMAIN us \ inactive_users(us, t, max_age) |-> us[u]]

\* ------------------------------------------------- the adapter sessions
Users == {"u1"}
Presets == {"debates"}
Topics == {"X"}
Texts == {"Y"}
MaxAges == {0}


\* Raw events of lab.stream(): dicts with "event", "role", "content".
EngineEvents ==
    {[event |-> "agent_message", role |-> "agent", content |-> "hi"],
     [event |-> "agent_message", role |-> "agent", content |-> ""],
     [event |-> "agent_message", role |-> "moderator", content |-> ""],
     [event |-> "user_turn", role |-> None, content |-> ""]}

\* ConversationEvent(...), lines 88-96.  iteration is the event's "iter":
\* the engine numbers the events of one stream 1, 2, ...; the events the
\* adapter makes itself carry 0.
ConversationEvent(event_type, content, role, iteration) ==
    [event_type |-> event_type, content |-> content, role |-> role,
     iteration |-> iteration]

\* _run_conversation, lines 78-86: agent_message is re-tagged by role.
event_type_of(ev) ==
    IF ev.event = "agent_message"
    THEN IF ev.role = "user" THEN "user_message"
         ELSE IF ev.role = "moderator" THEN "moderator_action"
         ELSE IF ev.role = "summarizer" THEN "summary_update"
         ELSE "agent_message"
    ELSE ev.event

ConvIds == 1..Len(conversations)

\* Events the engines have yielded so far, over all conversations.
engine_yielded ==
    LET S[i \in 0..Len(engine)] ==
            IF i = 0 THEN 0 ELSE S[i - 1] + engine[i].yielded
    IN  S[Len(engine)]

\* _emit_event of the base adapter: a ConversationEvent put on the stream.
emit_event(es, c, event_type, content) ==
    [es EXCEPT ![c] = Append(@, ConversationEvent(event_type, content, None, 0))]

\* The check `state.status != ConversationStatus.ACTIVE` of line 75.
run_must_break_never(status) == FALSE
run_must_break(status) == status # "ACTIVE"

\* The base class agentrylab.telegram.adapter.TelegramAdapter is a
\* dependency whose code is not among the sources; its session operations
\* are taken from what the specification says of them: pause needs an ACTIVE session,
\* resume a PAUSED one, post_user_message an ACTIVE one, and stop leaves
\* the status STOPPED.
base_pause_allowed(status) == status = "ACTIVE"
base_resume_allowed(status) == status = "PAUSED"
base_post_allowed(status) == status = "ACTIVE"
base_stopped_status == "STOPPED"

\* stream_events(conversation_id) of the base class ends once the session
\* is over and its event stream is drained.
base_stream_ended(c) ==
    /\ event_streams[c] = <<>>
    /\ conversations[c].status \in {"STOPPED", "ERROR", "COMPLETED"}

\* TelegramAdapter.start_conversation: a new ACTIVE session with its two
\* queues and its _run_conversation task.
AdapterStartConversation(u) ==
    /\ conversations' = Append(conversations, [user_id |-> u, status |-> "ACTIVE"])
    /\ event_streams' = Append(event_streams, <<>>)
    /\ user_message_queues' = Append(user_message_queues, <<>>)
    /\ running_tasks' = Append(running_tasks, "start")
    /\ engine' = Append(engine, [yielded |-> 0, posted |-> <<>>])
    /\ sink' = Append(sink, <<>>)

\* _run_conversation up to its first suspension (lines 59-72).
RunStart(c) ==
    /\ running_tasks[c] = "start"
    /\ running_tasks' = [running_tasks EXCEPT ![c] = "loop"]
    /\ event_streams' = emit_event(event_streams, c, "conversation_started",
                                   "Conversation started")
    /\ last' = Internal
    /\ UNCHANGED <<now, user_states, conversations, user_message_queues,
                   engine, streaming_tasks, tasks, sink, stopped_at>>
    /\ UNCHANGED bridge_vars
    /\ UNCHANGED handler_states

\* The draining loop leaves `async for` (break or exhaustion), lines 117-122
\* and the finally of 138-140.
RunCompleteTwice(c) ==
    /\ event_streams' = emit_event(
                            emit_event(event_streams, c, "conversation_completed",
                                       "Conversation completed"),
                            c, "conversation_completed", "Conversation completed")
    /\ conversations' = [conversations EXCEPT ![c].status = "COMPLETED"]
    /\ running_tasks' = [running_tasks EXCEPT ![c] = "done"]
RunComplete(c) ==
    /\ event_streams' = emit_event(event_streams, c, "conversation_completed",
                                   "Conversation completed")
    /\ conversations' = [conversations EXCEPT ![c].status = "COMPLETED"]
    /\ running_tasks' = [running_tasks EXCEPT ![c] = "done"]

\* What one pass of the loop of _run_conversation puts on the event queue,
\* lines 88-113: the engine's event, and after it, when get_nowait() finds a
\* pending user message, a user_message event made by _emit_event.
relayed_events_always_echo(conv_event, uq) ==
    <<conv_event,
      ConversationEvent("user_message",
                        IF uq = <<>> THEN "" ELSE Head(uq).content, None, 0)>>
relayed_events_echo_first(conv_event, uq) ==
    IF uq = <<>>
    THEN <<conv_event>>
    ELSE <<ConversationEvent("user_message", Head(uq).content, None, 0),
           conv_event>>
relayed_events(conv_event, uq) ==
    IF uq = <<>>
    THEN <<conv_event>>
    ELSE <<conv_event,
           ConversationEvent("user_message", Head(uq).content, None, 0)>>

\* One iteration of the draining loop for the engine event ev (lines 72-115).
RunEvent(c, ev) ==
    /\ running_tasks[c] = "loop"
    /\ engine_yielded < MaxEvents
    /\ last' = Internal
    /\ IF run_must_break(conversations[c].status)
       THEN /\ RunComplete(c)
            /\ engine' = [engine EXCEPT ![c].yielded = @ + 1]
            /\ UNCHANGED user_message_queues
       ELSE LET conv_event == ConversationEvent(event_type_of(ev), ev.content,
                                               ev.role, engine[c].yielded + 1)
                uq == user_message_queues[c]
            IN  /\ event_streams' = [event_streams EXCEPT ![c] =
                                        @ \o relayed_events(conv_event, uq)]
                /\ IF uq = <<>>
                   THEN /\ engine' = [engine EXCEPT ![c].yielded = @ + 1]
                        /\ UNCHANGED user_message_queues
                   ELSE /\ user_message_queues' =
                               [user_message_queues EXCEPT ![c] = Tail(uq)]
                        /\ engine' = [engine EXCEPT
                               ![c].yielded = @ + 1,
                               ![c].posted = Append(@, Head(uq).content)]
                /\ UNCHANGED <<conversations, running_tasks>>
    /\ UNCHANGED <<now, user_states, streaming_tasks, tasks, sink, stopped_at>>
    /\ UNCHANGED bridge_vars
    /\ UNCHANGED handler_states

\* lab.stream() is exhausted: the bridge ends the iteration.
RunEnd(c) ==
    /\ running_tasks[c] = "loop"
    /\ RunComplete(c)
    /\ last' = Internal
    /\ UNCHANGED <<now, user_states, user_message_queues, engine,
                   streaming_tasks, tasks, sink, stopped_at>>
    /\ UNCHANGED bridge_vars
    /\ UNCHANGED handler_states

\* lab.stream() raises: the bridge re-raises, lines 129-140.
RunRaise(c) ==
    /\ running_tasks[c] = "loop"
    /\ conversations' = [conversations EXCEPT ![c].status = "ERROR"]
    /\ event_streams' = emit_event(event_streams, c, "error", "Error")
    /\ running_tasks' = [running_tasks EXCEPT ![c] = "done"]
    /\ last' = Internal
    /\ UNCHANGED <<now, user_states, user_message_queues, engine,
                   streaming_tasks, tasks, sink, stopped_at>>
    /\ UNCHANGED bridge_vars
    /\ UNCHANGED handler_states

\* ---------------------------------------------------- ConversationService
adapter_vars == <<conversations, event_streams, user_message_queues,
                  running_tasks, engine, sink>>

\* start_conversation, lines 64-98.  The f-string of line 67 reads
\* user_state.state.value, which a plain string does not have; that and
\* every other exception end in the handler of lines 95-98.
start_rejected(st) ==
    st.state.cls # "ConversationState" \/ ~can_start_new_conversation(st)

\* What start_conversation stores once the adapter returned conversation c.
started_state(us, u, c, t) ==
    add_user_metadata(
        add_user_metadata(
            set_user_state(set_user_conversation_id(us, u, c, t), u,
                           StrConst("in_conversation"), t),
            u, "max_rounds", t),
        u, "started_at", t)

\* The handler of lines 95-98: whatever was raised, the flow state is set
\* to ConversationStates.ERROR before BotError is raised.
failed_state_kept(us, u, t) == us
failed_state(us, u, t) == set_user_state(us, u, StrConst("error"), t)

start_conversation(u, preset, topic, engine_ok) ==
    LET d0 == get_user_state(user_states, u, now)
        d1 == set_user_topic(
                  set_user_preset(
                      set_user_state(d0, u, StrConst("starting_conversation"), now),
                      u, preset, now),
                  u, topic, now)
        c == Len(conversations) + 1
    IN  IF start_rejected(d0[u])
        THEN /\ user_states' = failed_state(d0, u, now)
             /\ last' = Result("start_conversation", "BotError", u, NoConv)
             /\ UNCHANGED adapter_vars
        ELSE IF ~engine_ok
        THEN /\ user_states' = failed_state(d1, u, now)
             /\ last' = Result("start_conversation", "BotError", u, NoConv)
             /\ UNCHANGED adapter_vars
        ELSE /\ Len(conversations) < MaxConv
             /\ AdapterStartConversation(u)
             /\ user_states' = started_state(d1, u, c, now)
             /\ last' = Result("start_conversation", "id", u, c)

ServiceStart(u, preset, topic, engine_ok) ==
    /\ start_conversation(u, preset, topic, engine_ok)
    /\ UNCHANGED <<now, streaming_tasks, tasks, stopped_at>>
    /\ UNCHANGED bridge_vars
    /\ UNCHANGED handler_states

\* task.cancel() for the entry of conversation c, then `del` (lines 171-173
\* and 242-244).  A running task gets CancelledError at its await; a task
\* that has not run yet never runs.
cancel_every_streaming_task(c) ==
    /\ tasks' = [t \in DOMAIN tasks |->
                     IF t \in {streaming_tasks[k] : k \in DOMAIN streaming_tasks}
                     THEN [tasks[t] EXCEPT !.pc =
                              IF @ = "running" THEN "cancelled"
                              ELSE IF @ = "created" THEN "done" ELSE @]
                     ELSE tasks[t]]
    /\ streaming_tasks' = [k \in {} |-> 0]
cancel_streaming_task(c) ==
    IF c \in DOMAIN streaming_tasks
    THEN /\ tasks' = [tasks EXCEPT ![streaming_tasks[c]].pc =
                         IF @ = "running" THEN "cancelled"
                         ELSE IF @ = "created" THEN "done" ELSE @]
         /\ streaming_tasks' = [k \in DOMAIN streaming_tasks \ {c} |->
                                    streaming_tasks[k]]
    ELSE UNCHANGED <<tasks, streaming_tasks>>

\* pause_conversation, lines 154-179.
pause_accepted_unchecked(st) ==
    /\ is_in_conversation(st)
    /\ st.conversation_id # NoConv
pause_accepted(st) ==
    /\ is_in_conversation(st)
    /\ st.conversation_id # NoConv
    /\ base_pause_allowed(conversations[st.conversation_id].status)

ServicePause(u) ==
    LET d0 == get_user_state(user_states, u, now)
        c == d0[u].conversation_id
    IN  /\ IF pause_accepted(d0[u])
           THEN /\ conversations' = [conversations EXCEPT ![c].status = "PAUSED"]
                /\ user_states' = set_user_state(d0, u,
                                      StrConst("conversation_paused"), now)
                /\ cancel_streaming_task(c)
                /\ last' = Internal
           ELSE /\ user_states' = d0
                /\ last' = Internal
                /\ UNCHANGED <<conversations, tasks, streaming_tasks>>
        /\ UNCHANGED <<now, event_streams, user_message_queues, running_tasks,
                       engine, sink, stopped_at>>
        /\ UNCHANGED bridge_vars
        /\ UNCHANGED handler_states

\* resume_conversation, lines 192-212.
resume_accepted(st) ==
    /\ st.state = StrConst("conversation_paused")
    /\ st.conversation_id # NoConv
    /\ base_resume_allowed(conversations[st.conversation_id].status)

ServiceResumeRestarts(u) ==
    LET d0 == get_user_state(user_states, u, now)
        c == d0[u].conversation_id
    IN  /\ IF resume_accepted(d0[u])
           THEN /\ conversations' = [conversations EXCEPT ![c].status = "ACTIVE"]
                /\ user_states' = set_user_state(d0, u,
                                      StrConst("in_conversation"), now)
                /\ tasks' = [t \in DOMAIN tasks |->
                                 IF tasks[t].conversation_id = c
                                 THEN [tasks[t] EXCEPT !.pc = "running"]
                                 ELSE tasks[t]]
                /\ last' = Result("resume_conversation", "None", u, c)
           ELSE /\ user_states' = d0
                /\ last' = Result("resume_conversation", "BotError", u, NoConv)
                /\ UNCHANGED <<conversations, tasks>>
        /\ UNCHANGED <<now, event_streams, user_message_queues, running_tasks,
                       engine, streaming_tasks, sink, stopped_at>>
        /\ UNCHANGED bridge_vars
        /\ UNCHANGED handler_states
ServiceResume(u) ==
    LET d0 == get_user_state(user_states, u, now)
        c == d0[u].conversation_id
    IN  /\ IF resume_accepted(d0[u])
           THEN /\ conversations' = [conversations EXCEPT ![c].status = "ACTIVE"]
                /\ user_states' = set_user_state(d0, u,
                                      StrConst("in_conversation"), now)
                /\ last' = Result("resume_conversation", "None", u, c)
           ELSE /\ user_states' = d0
                /\ last' = Result("resume_conversation", "BotError", u, NoConv)
                /\ UNCHANGED conversations
        /\ UNCHANGED <<now, event_streams, user_message_queues, running_tasks,
                       engine, streaming_tasks, tasks, sink, stopped_at>>
        /\ UNCHANGED bridge_vars
        /\ UNCHANGED handler_states

\* stop_conversation, lines 225-250, with AsyncTelegramAdapter
\* .stop_conversation (adapters/agentrylab.py 142-146).  task_cancelled: the
\* base class cancelled the _run_conversation task (handled at 124-128).
stop_accepted(st) ==
    /\ is_in_conversation(st)
    /\ st.conversation_id # NoConv

ServiceStop(u, task_cancelled) ==
    LET d0 == get_user_state(user_states, u, now)
        c == d0[u].conversation_id
    IN  /\ IF stop_accepted(d0[u])
           THEN /\ conversations' = [conversations EXCEPT ![c].status =
                                            base_stopped_status]
                /\ running_tasks' = [running_tasks EXCEPT ![c] =
                       IF task_cancelled THEN "done" ELSE @]
                /\ stopped_at' = IF c \in DOMAIN stopped_at THEN stopped_at
                                     ELSE stopped_at @@ (c :> engine[c].yielded)
                /\ user_states' = set_user_state(d0, u,
                                      StrConst("conversation_ended"), now)
                /\ cancel_streaming_task(c)
                /\ last' = Internal
           ELSE /\ user_states' = d0
                /\ last' = Internal
                /\ UNCHANGED <<conversations, running_tasks, stopped_at,
                               tasks, streaming_tasks>>
        /\ UNCHANGED <<now, event_streams, user_message_queues, engine, sink>>
        /\ UNCHANGED bridge_vars
        /\ UNCHANGED handler_states

\* handle_user_input, lines 267-288, with the base adapter's
\* post_user_message, which queues the text for the draining loop.
\* The test of line 270.
in_conversation_by_value(st) ==
    st.state.value \in {"in_conversation", "waiting_for_user_input",
                        "conversation_paused"}
waiting_for_input(st) == st.state = StrConst("waiting_for_user_input")

input_accepted(st) ==
    /\ waiting_for_input(st)
    /\ st.conversation_id # NoConv
    /\ base_post_allowed(conversations[st.conversation_id].status)

state_after_input_unchanged(st) == st.state
state_after_input(st) == StrConst("in_conversation")

ServiceHandleUserInput(u, text) ==
    LET d0 == get_user_state(user_states, u, now)
        c == d0[u].conversation_id
    IN  /\ IF input_accepted(d0[u])
           THEN /\ user_message_queues' = [user_message_queues EXCEPT ![c] =
                       Append(@, [content |-> text, user_id |-> u])]
                /\ user_states' = set_user_state(d0, u,
                                      state_after_input(d0[u]), now)
                /\ last' = Result("handle_user_input", "True", u, c)
           ELSE /\ user_states' = d0
                /\ last' = Result("handle_user_input", "BotError", u, NoConv)
                /\ UNCHANGED user_message_queues
        /\ UNCHANGED <<now, conversations, event_streams, running_tasks,
                       engine, streaming_tasks, tasks, sink, stopped_at>>
        /\ UNCHANGED bridge_vars
        /\ UNCHANGED handler_states

\* start_conversation_streaming, lines 298-315: a new task, registered
\* under the conversation id in place of whatever was registered before.
ServiceStartStreaming(u) ==
    LET d0 == get_user_state(user_states, u, now)
        c == d0[u].conversation_id
        t == Len(tasks) + 1
    IN  /\ user_states' = d0
        /\ IF c # NoConv
           THEN /\ Len(tasks) < MaxTasks
                /\ tasks' = Append(tasks, [conversation_id |-> c, user_id |-> u,
                                           pc |-> "created"])
                /\ streaming_tasks' = [k \in DOMAIN streaming_tasks \cup {c} |->
                                          IF k = c THEN t ELSE streaming_tasks[k]]
                /\ last' = Internal
           ELSE /\ last' = Internal
                /\ UNCHANGED <<tasks, streaming_tasks>>
        /\ UNCHANGED <<now, conversations, event_streams, user_message_queues,
                       running_tasks, engine, sink, stopped_at>>
        /\ UNCHANGED bridge_vars
        /\ UNCHANGED handler_states

\* The `finally` of _stream_conversation_events, lines 343-346.
streaming_cleanup(c) ==
    [k \in DOMAIN streaming_tasks \ {c} |-> streaming_tasks[k]]

\* The task runs to its first suspension inside adapter.stream_events.
TaskStart(t) ==
    /\ tasks[t].pc = "created"
    /\ tasks' = [tasks EXCEPT ![t].pc = "running"]
    /\ last' = Internal
    /\ UNCHANGED <<now, user_states, conversations, event_streams,
                   user_message_queues, running_tasks, engine,
                   streaming_tasks, sink, stopped_at>>
    /\ UNCHANGED bridge_vars
    /\ UNCHANGED handler_states

\* _handle_conversation_event, lines 357-407: the flow state it stores ...
handled_state_turn_ignored(us, u, event, t) ==
    IF event.event_type = "conversation_completed"
    THEN set_user_state(us, u, StrConst("conversation_ended"), t)
    ELSE IF event.event_type = "error"
    THEN set_user_state(us, u, StrConst("error"), t)
    ELSE us
handled_state(us, u, event, t) ==
    IF event.event_type = "user_turn"
    THEN set_user_state(us, u, StrConst("waiting_for_user_input"), t)
    ELSE IF event.event_type = "conversation_completed"
    THEN set_user_state(us, u, StrConst("conversation_ended"), t)
    ELSE IF event.event_type = "error"
    THEN set_user_state(us, u, StrConst("error"), t)
    ELSE us

\* ... and what it passes to event_handler (with the iteration of the
\* event the call was made for).
handled_sink(event) ==
    IF event.event_type = "agent_message"
    THEN LET et == IF event.role = "user" THEN "user_message"
                   ELSE IF event.role = "moderator" THEN "moderator_action"
                   ELSE IF event.role = "summarizer" THEN "summary_update"
                   ELSE "agent_message"
         IN  IF event.content # ""
             THEN <<[event_type |-> et, content |-> event.content,
                     iteration |-> event.iteration]>>
             ELSE <<>>
    ELSE <<[event_type |-> event.event_type, content |-> event.content,
            iteration |-> event.iteration]>>

\* One turn of `async for event in self.adapter.stream_events(...)`,
\* lines 328-335, and the exit through `break` with the finally of 343-346.
StreamEvent(t) ==
    LET c == tasks[t].conversation_id
        u == tasks[t].user_id
        event == Head(event_streams[c])
        d0 == get_user_state(user_states, u, now)
    IN  /\ tasks[t].pc = "running"
        /\ event_streams[c] # <<>>
        /\ event_streams' = [event_streams EXCEPT ![c] = Tail(@)]
        /\ IF is_in_conversation(d0[u])
           THEN /\ user_states' = handled_state(d0, u, event, now)
                /\ sink' = [sink EXCEPT ![c] = @ \o handled_sink(event)]
                /\ UNCHANGED <<tasks, streaming_tasks>>
           ELSE /\ user_states' = d0
                /\ tasks' = [tasks EXCEPT ![t].pc = "done"]
                /\ streaming_tasks' = streaming_cleanup(c)
                /\ UNCHANGED sink
        /\ last' = Internal
        /\ UNCHANGED <<now, conversations, user_message_queues, running_tasks,
                       engine, stopped_at>>
        /\ UNCHANGED bridge_vars
        /\ UNCHANGED handler_states

\* adapter.stream_events ends (the session is over and its stream drained),
\* or the CancelledError of a cancelled task is handled (lines 337-338);
\* both leave through the finally.
StreamFinish(t) ==
    LET c == tasks[t].conversation_id IN
    /\ \/ tasks[t].pc = "cancelled"
       \/ /\ tasks[t].pc = "running"
          /\ base_stream_ended(c)
    /\ tasks' = [tasks EXCEPT ![t].pc = "done"]
    /\ streaming_tasks' = streaming_cleanup(c)
    /\ last' = Internal
    /\ UNCHANGED <<now, user_states, conversations, event_streams,
                   user_message_queues, running_tasks, engine, sink,
                   stopped_at>>
    /\ UNCHANGED bridge_vars
    /\ UNCHANGED handler_states

\* cleanup_inactive_conversations, lines 477-500.
finished_entries ==
    {c \in DOMAIN streaming_tasks : tasks[streaming_tasks[c]].pc = "done"}

ServiceCleanup(max_age) ==
    /\ user_states' = cleanup_inactive_users(user_states, now, max_age)
    /\ streaming_tasks' = [c \in DOMAIN streaming_tasks \ finished_entries |->
                              streaming_tasks[c]]
    /\ last' = Internal
    /\ UNCHANGED <<now, conversations, event_streams, user_message_queues,
                   running_tasks, engine, tasks, sink, stopped_at>>
    /\ UNCHANGED bridge_vars
    /\ UNCHANGED handler_states

\* ------------------------------------------------ handlers and callers
\* commands.start_command, lines 46-48.
StartCommand(u) ==
    /\ user_states' = set_user_state(reset_user_state(user_states, u, now), u,
                                     EnumMember("selecting_preset"), now)
    /\ last' = Internal
    /\ UNCHANGED <<now, conversations, event_streams, user_message_queues,
                   running_tasks, engine, streaming_tasks, tasks, sink,
                   stopped_at>>
    /\ UNCHANGED bridge_vars
    /\ UNCHANGED handler_states

\* callbacks.handle_preset_selection / handle_custom_topic, lines 49-50.
PresetSelected(u, preset) ==
    /\ user_states' = set_user_state(
                          set_user_preset(user_states, u, preset, now), u,
                          StrConst("entering_topic"), now)
    /\ last' = Internal
    /\ UNCHANGED <<now, conversations, event_streams, user_message_queues,
                   running_tasks, engine, streaming_tasks, tasks, sink,
                   stopped_at>>
    /\ UNCHANGED bridge_vars
    /\ UNCHANGED handler_states

\* messages.handle_message, lines 16-30, with handle_topic_input (33-66),
\* handle_conversation_input (69-89) and handle_regular_message (92-96).
\* The texts of the model are non-empty and shorter than MAX_TOPIC_LENGTH;
\* every exception of the service is caught and answered with a reply.
routed_to_input(st) == st.state = StrConst("in_conversation")

HandleMessage(u, text, engine_ok) ==
    LET d0 == get_user_state(user_states, u, now) IN
    IF d0[u].state = StrConst("entering_topic")
    THEN /\ start_conversation(u, d0[u].selected_preset, text, engine_ok)
         /\ UNCHANGED <<now, streaming_tasks, tasks, stopped_at>>
         /\ UNCHANGED bridge_vars
         /\ UNCHANGED handler_states
    ELSE IF routed_to_input(d0[u])
    THEN IF d0[u].conversation_id = NoConv
         THEN /\ user_states' = d0
              /\ last' = Result("handle_message", "no_conversation", u, NoConv)
              /\ UNCHANGED <<now, conversations, event_streams,
                             user_message_queues, running_tasks, engine,
                             streaming_tasks, tasks, sink, stopped_at>>
              /\ UNCHANGED bridge_vars
              /\ UNCHANGED handler_states
         ELSE ServiceHandleUserInput(u, text)
    ELSE /\ user_states' = d0
         /\ last' = Result("handle_message", "regular", u, NoConv)
         /\ UNCHANGED <<now, conversations, event_streams,
                        user_message_queues, running_tasks, engine,
                        streaming_tasks, tasks, sink, stopped_at>>
         /\ UNCHANGED bridge_vars
         /\ UNCHANGED handler_states

\* The /pause, /resume and /stop commands (commands.py lines 128-140) run
\* pause_conversation, resume_conversation and stop_conversation of
\* handlers/conversation.py (lines 358-517), which read and write the
\* module's own state_manager (line 18) and call the adapter of
\* bot_data directly.  Every refusal and every exception ends in a reply.
command_resume_accepted(st) ==
    /\ st.state = EnumMember("conversation_paused")
    /\ st.conversation_id # NoConv
    /\ base_resume_allowed(conversations[st.conversation_id].status)

CommandPause(u) ==
    LET h0 == get_user_state(handler_states, u, now)
        c == h0[u].conversation_id
    IN  /\ IF pause_accepted(h0[u])
           THEN /\ conversations' = [conversations EXCEPT ![c].status = "PAUSED"]
                /\ handler_states' = set_user_state(h0, u,
                                         EnumMember("conversation_paused"), now)
                /\ last' = Result("pause_command", "paused", u, c)
           ELSE /\ handler_states' = h0
                /\ last' = Result("pause_command", "refused", u, NoConv)
                /\ UNCHANGED conversations
        /\ UNCHANGED <<now, user_states, event_streams, user_message_queues,
                       running_tasks, engine, streaming_tasks, tasks, sink,
                       stopped_at>>
        /\ UNCHANGED bridge_vars

CommandResume(u) ==
    LET h0 == get_user_state(handler_states, u, now)
        c == h0[u].conversation_id
    IN  /\ IF command_resume_accepted(h0[u])
           THEN /\ conversations' = [conversations EXCEPT ![c].status = "ACTIVE"]
                /\ handler_states' = set_user_state(h0, u,
                                         EnumMember("in_conversation"), now)
                /\ last' = Result("resume_command", "resumed", u, c)
           ELSE /\ handler_states' = h0
                /\ last' = Result("resume_command", "refused", u, NoConv)
                /\ UNCHANGED conversations
        /\ UNCHANGED <<now, user_states, event_streams, user_message_queues,
                       running_tasks, engine, streaming_tasks, tasks, sink,
                       stopped_at>>
        /\ UNCHANGED bridge_vars

CommandStop(u, task_cancelled) ==
    LET h0 == get_user_state(handler_states, u, now)
        c == h0[u].conversation_id
    IN  /\ IF stop_accepted(h0[u])
           THEN /\ conversations' = [conversations EXCEPT ![c].status =
                                            base_stopped_status]
                /\ running_tasks' = [running_tasks EXCEPT ![c] =
                       IF task_cancelled THEN "done" ELSE @]
                /\ stopped_at' = IF c \in DOMAIN stopped_at THEN stopped_at
                                     ELSE stopped_at @@ (c :> engine[c].yielded)
                /\ handler_states' = set_user_state(h0, u,
                                         EnumMember("conversation_ended"), now)
                /\ last' = Result("stop_command", "stopped", u, c)
           ELSE /\ handler_states' = h0
                /\ last' = Result("stop_command", "refused", u, NoConv)
                /\ UNCHANGED <<conversations, running_tasks, stopped_at>>
        /\ UNCHANGED <<now, user_states, event_streams, user_message_queues,
                       engine, streaming_tasks, tasks, sink>>
        /\ UNCHANGED bridge_vars

\* ConversationStateManager.set_user_state is public and declared for the
\* members of the enum; its callers outside the service (commands.py,
\* handlers/conversation.py, tests/test_integration.py) pass members.
\* SetUserState is such a call, with an in-conversation member, on the
\* manager the service uses.
SetterStates == {EnumMember("in_conversation"),
                 EnumMember("waiting_for_user_input"),
                 EnumMember("conversation_paused")}

SetUserState(u, s) ==
    /\ user_states' = set_user_state(user_states, u, s, now)
    /\ last' = Internal
    /\ UNCHANGED <<now, conversations, event_streams, user_message_queues,
                   running_tasks, engine, streaming_tasks, tasks, sink,
                   stopped_at>>
    /\ UNCHANGED bridge_vars
    /\ UNCHANGED handler_states

\* An hour passes.
Tick ==
    /\ now < MaxTime
    /\ now' = now + 1
    /\ last' = Internal
    /\ UNCHANGED <<user_states, conversations, event_streams,
                   user_message_queues, running_tasks, engine,
                   streaming_tasks, tasks, sink, stopped_at>>
    /\ UNCHANGED bridge_vars
    /\ UNCHANGED handler_states

Init ==
    /\ lab_stream = <<>>
    /\ lab_raises = FALSE
    /\ producer_pc = "next"
    /\ yielded = 0
    /\ loop_calls = <<>>
    /\ queue = <<>>
    /\ consumer_pc = "get"
    /\ received = <<>>
    /\ raised = 0
    /\ after_end = 0
    /\ ExecutorInit
    /\ ServiceInit

\* The sessions of the adapter: the service's session operations, the
\* _run_conversation tasks, the /start and preset handlers, the reclaim of
\* idle records and the clock.
Next ==
    \/ \E u \in Users, p \in Presets, tp \in Topics, ok \in BOOLEAN :
           ServiceStart(u, p, tp, ok)
    \/ \E u \in Users : ServicePause(u)
    \/ \E u \in Users : ServiceResume(u)
    \/ \E u \in Users, cancelled \in BOOLEAN : ServiceStop(u, cancelled)
    \/ \E a \in MaxAges : ServiceCleanup(a)
    \/ \E c \in ConvIds : RunStart(c)
    \/ \E c \in ConvIds, ev \in EngineEvents : RunEvent(c, ev)
    \/ \E c \in ConvIds : RunEnd(c)
    \/ \E c \in ConvIds : RunRaise(c)
    \/ \E u \in Users : StartCommand(u)
    \/ \E u \in Users, p \in Presets : PresetSelected(u, p)
    \/ \E u \in Users, s \in SetterStates : SetUserState(u, s)
    \/ Tick

Spec == Init /\ [][Next]_vars

\* The executor of the adapter with the bridges opened on it.
ExecutorSpec == Init /\ [][ExecutorNext]_vars

\* The pool runs a queued producer as soon as one of its threads is free.
\* Nothing makes a running producer return: lab.stream() may block for as
\* long as the engine likes.
ExecutorFairSpec == ExecutorSpec /\ WF_vars(WorkerTake)

\* One session with its streaming tasks: the service's operations, the
\* _run_conversation task and the tasks of start_conversation_streaming.
StreamingNext ==
    \/ \E u \in Users, p \in Presets, tp \in Topics, ok \in BOOLEAN :
           ServiceStart(u, p, tp, ok)
    \/ \E u \in Users : ServicePause(u)
    \/ \E u \in Users : ServiceResume(u)
    \/ \E u \in Users, cancelled \in BOOLEAN : ServiceStop(u, cancelled)
    \/ \E u \in Users, text \in Texts : ServiceHandleUserInput(u, text)
    \/ \E u \in Users : ServiceStartStreaming(u)
    \/ \E t \in 1..Len(tasks) : TaskStart(t)
    \/ \E t \in 1..Len(tasks) : StreamEvent(t)
    \/ \E t \in 1..Len(tasks) : StreamFinish(t)
    \/ \E c \in ConvIds : RunStart(c)
    \/ \E c \in ConvIds, ev \in EngineEvents : RunEvent(c, ev)
    \/ \E c \in ConvIds : RunEnd(c)
    \/ \E c \in ConvIds : RunRaise(c)
    \/ \E u \in Users, s \in SetterStates : SetUserState(u, s)

StreamingSpec == Init /\ [][StreamingNext]_vars

\* The text messages of the users with what leads to them: the /start and
\* preset handlers, the service's start, the _run_conversation tasks and
\* the streaming tasks that hand the turn to the user.
MessageNext ==
    \/ \E u \in Users, text \in Texts, ok \in BOOLEAN : HandleMessage(u, text, ok)
    \/ \E u \in Users, p \in Presets, tp \in Topics, ok \in BOOLEAN :
           ServiceStart(u, p, tp, ok)
    \/ \E u \in Users : StartCommand(u)
    \/ \E u \in Users, p \in Presets : PresetSelected(u, p)
    \/ \E u \in Users : ServiceStartStreaming(u)
    \/ \E t \in 1..Len(tasks) : TaskStart(t)
    \/ \E t \in 1..Len(tasks) : StreamEvent(t)
    \/ \E t \in 1..Len(tasks) : StreamFinish(t)
    \/ \E c \in ConvIds : RunStart(c)
    \/ \E c \in ConvIds, ev \in EngineEvents : RunEvent(c, ev)
    \/ \E c \in ConvIds : RunEnd(c)
    \/ \E c \in ConvIds : RunRaise(c)
    \/ \E u \in Users, s \in SetterStates : SetUserState(u, s)

MessageSpec == Init /\ [][MessageNext]_vars

\* The commands as app.setup_handlers registers them, with the service's
\* session operations and the _run_conversation tasks.
CommandNext ==
    \/ \E u \in Users, p \in Presets, tp \in Topics, ok \in BOOLEAN :
           ServiceStart(u, p, tp, ok)
    \/ \E u \in Users : ServicePause(u)
    \/ \E u \in Users : ServiceResume(u)
    \/ \E u \in Users, cancelled \in BOOLEAN : ServiceStop(u, cancelled)
    \/ \E u \in Users : CommandPause(u)
    \/ \E u \in Users : CommandResume(u)
    \/ \E u \in Users, cancelled \in BOOLEAN : CommandStop(u, cancelled)
    \/ \E u \in Users : StartCommand(u)
    \/ \E u \in Users, s \in SetterStates : SetUserState(u, s)
    \/ \E c \in ConvIds : RunStart(c)
    \/ \E c \in ConvIds, ev \in EngineEvents : RunEvent(c, ev)
    \/ \E c \in ConvIds : RunEnd(c)
    \/ \E c \in ConvIds : RunRaise(c)
    \/ Tick

CommandSpec == Init /\ [][CommandNext]_vars

\* Two users on one service.  The first calls every operation; the second
\* starts a conversation and its streaming, so that it has a record, a
\* session and a task while the operations of the first run.
TwoUsers == {"u1", "u2"}
Caller == "u1"
Bystander == "u2"

IsolationNext ==
    \/ \E u \in TwoUsers, p \in Presets, tp \in Topics, ok \in BOOLEAN :
           ServiceStart(u, p, tp, ok)
    \/ \E u \in TwoUsers : ServiceStartStreaming(u)
    \/ ServicePause(Caller)
    \/ ServiceResume(Caller)
    \/ \E cancelled \in BOOLEAN : ServiceStop(Caller, cancelled)
    \/ \E text \in Texts : ServiceHandleUserInput(Caller, text)
    \/ StartCommand(Caller)
    \/ SetUserState(Caller, EnumMember("in_conversation"))
    \/ \E t \in 1..Len(tasks) : TaskStart(t)
    \/ \E t \in 1..Len(tasks) : StreamEvent(t)
    \/ \E t \in 1..Len(tasks) : StreamFinish(t)
    \/ \E c \in ConvIds : RunStart(c)

IsolationSpec == Init /\ [][IsolationNext]_vars

IsPrefix(s, t) == Len(s) <= Len(t) /\ SubSeq(t, 1, Len(s)) = s

\* C1: the consumer receives exactly the events lab.stream() yielded, each
\* once and in order, and then the iteration ends, under every interleaving
\* of the worker thread and the event loop.
C1_OrderedDelivery ==
    /\ [](IsPrefix(received, lab_stream))
    /\ [](consumer_pc = "ended" => received = lab_stream /\ raised = 0)
    /\ [](~lab_raises => <>(consumer_pc = "ended"))

C1_Witness ==
    /\ consumer_pc = "ended"
    /\ Len(lab_stream) = MaxStream
    /\ lab_stream[1] # lab_stream[2]
    /\ received = lab_stream

\* C2: a producer that raises after k events: the consumer gets the k
\* events in order, then the exception exactly once, then nothing more.
C2_ExceptionOnce ==
    /\ raised <= 1
    /\ (raised = 1) = (consumer_pc = "raised")
    /\ consumer_pc = "raised" => lab_raises /\ received = lab_stream
    /\ lab_raises => consumer_pc # "ended"
    /\ \A i \in 1..Len(received) : ~IsException(received[i])

C2_Witness ==
    /\ consumer_pc = "raised"
    /\ after_end = MaxAfterEnd
    /\ Len(received) >= 2
    /\ raised = 1

\* ------------------------------------------------- claims on the sessions
InConversationValues == {"in_conversation", "waiting_for_user_input",
                         "conversation_paused"}

Known(u) == u \in DOMAIN user_states

ActiveSessions(u) ==
    {c \in ConvIds : conversations[c].user_id = u
                       /\ conversations[c].status = "ACTIVE"}

RunningTasks(c) ==
    {t \in 1..Len(tasks) : tasks[t].conversation_id = c
                             /\ tasks[t].pc = "running"}

C4_OneActiveSession ==
    \A u \in Users : Cardinality(ActiveSessions(u)) <= 1

\* C5: start_conversation for u raises on every attempt made while a
\* session of u is ACTIVE, and returns an id when u's session is over
\* (STOPPED, ERROR or COMPLETED) and the flow state is ENDED or ERROR.
C5_SessionOver(u) ==
    /\ Known(u)
    /\ user_states[u].conversation_id # NoConv
    /\ conversations[user_states[u].conversation_id].status
           \in {"STOPPED", "ERROR", "COMPLETED"}
    /\ user_states[u].state.value \in {"conversation_ended", "error"}

C5_StartPolicy ==
    [][\A u \in Users, p \in Presets, tp \in Topics :
           ServiceStart(u, p, tp, TRUE) =>
               /\ ActiveSessions(u) # {} => last'.result = "BotError"
               /\ (ActiveSessions(u) = {} /\ C5_SessionOver(u))
                      => last'.result = "id"]_vars

\* C6: right after start_conversation returned an id for u, the flow-state
\* predicates recognise u as in conversation: is_in_conversation holds,
\* can_start_new_conversation does not, conversation_id is the returned id,
\* and pause and stop would be accepted.
C6_StartedIsInConversation ==
    (last.op = "start_conversation" /\ last.result = "id") =>
        LET st == user_states[last.user] IN
        /\ is_in_conversation(st)
        /\ ~can_start_new_conversation(st)
        /\ st.conversation_id = last.conv
        /\ pause_accepted(st)
        /\ stop_accepted(st)

\* C7: for every user, conversation_id is set only while the flow state is
\* IN_CONVERSATION, WAITING_FOR_INPUT or PAUSED (in either representation):
\* it is cleared once the conversation is stopped, completed or failed.
\* (The converse half of the claim is not stated here: a direct
\* set_user_state on a fresh record breaks it without any service code.)
C7_ConversationIdCleared ==
    \A u \in DOMAIN user_states :
        user_states[u].conversation_id # NoConv
            => user_states[u].state.value \in InConversationValues

\* C8: two streaming tasks for the same conversation id are never running
\* at the same time.
C8_OneStreamingTask ==
    \A c \in ConvIds : Cardinality(RunningTasks(c)) <= 1

\* C9: handle_user_input for a user whose flow state is not
\* WAITING_FOR_INPUT raises BotError and is a no-op: nothing is queued for
\* the draining loop and the flow state is what get_user_state reports
\* before the call.
C9_NotWaiting(u) ==
    ~Known(u) \/ user_states[u].state.value # "waiting_for_user_input"

C10_InputSetsInConversation ==
    [][/\ \A u \in Users, text \in Texts :
              (ServiceHandleUserInput(u, text) /\ last'.result = "True") =>
                  /\ user_states[u].state = StrConst("waiting_for_user_input")
                  /\ user_states'[u].state = StrConst("in_conversation")
                  /\ user_message_queues'[last'.conv] =
                         Append(user_message_queues[last'.conv],
                                [content |-> text, user_id |-> u])
       /\ \A c \in ConvIds, ev \in EngineEvents :
              RunEvent(c, ev) => user_states' = user_states]_vars

\* C10 as the spec words it: a successful call leaves the flow state alone.
C10_InputKeepsWaiting ==
    [][\A u \in Users, text \in Texts :
           (ServiceHandleUserInput(u, text) /\ last'.result = "True") =>
               user_states'[u].state = user_states[u].state]_vars

\* The call returned True; the text is still queued, undelivered, and the
\* flow state is IN_CONVERSATION already.
C10_Witness ==
    /\ last.op = "handle_user_input"
    /\ last.result = "True"
    /\ user_states[last.user].state = StrConst("in_conversation")
    /\ user_message_queues[last.conv] # <<>>

\* The positions of a sequence of events that hold a user_message event.
UserMessages(q) == {i \in 1..Len(q) : q[i].event_type = "user_message"}

C12_AcceptedInputForwarded ==
    \A c \in ConvIds :
        running_tasks[c] = "done" => user_message_queues[c] = <<>>

\* C13: events reach the sink in the order the engine emitted them.  In
\* every step and for every conversation: (1) the event stream changes only
\* by events put at its tail or by its head being taken; (2) a pass of the
\* draining loop that finds a pending input puts the engine's event, numbered
\* next in the engine's count, and directly after it the user_message event
\* with the input's content; (3) the sink grows only by one entry, made from
\* the head of the stream that the same step takes; (4) the engine events
\* of the sink followed by those still on the stream are in strictly
\* increasing order of the engine's numbering.
C13_Increasing(q) ==
    \A i \in 1..Len(q) : \A j \in 1..Len(q) :
        (i < j /\ q[i].iteration > 0 /\ q[j].iteration > 0)
        => q[i].iteration < q[j].iteration

C14_PausedStaysPaused ==
    \A u \in DOMAIN user_states :
        (/\ user_states[u].state = StrConst("conversation_paused")
         /\ user_states[u].conversation_id # NoConv)
        => conversations[user_states[u].conversation_id].status = "PAUSED"

\* C15: a pass of the draining loop that finds the session no longer ACTIVE
\* puts no event on the stream and leaves the session status as it was.
C15_BreakIsSilent ==
    [][\A c \in ConvIds : \A ev \in EngineEvents :
          (RunEvent(c, ev) /\ conversations[c].status # "ACTIVE")
          => /\ event_streams'[c] = event_streams[c]
             /\ conversations'[c].status = conversations[c].status]_vars

C17_Failed(u) ==
    /\ Known(u)
    /\ user_states[u].conversation_id # NoConv
    /\ user_states[u].state.value = "error"
    /\ LET c == user_states[u].conversation_id
       IN  /\ conversations[c].status = "ERROR"
           /\ sink[c] # <<>>
           /\ sink[c][Len(sink[c])].event_type = "error"
           /\ Cardinality({i \in 1..Len(sink[c]) :
                              sink[c][i].event_type = "error"}) = 1

C17_StartAfterEngineError ==
    [][\A u \in Users, p \in Presets, tp \in Topics :
          (ServiceStart(u, p, tp, TRUE) /\ C17_Failed(u))
          => last'.result = "id"]_vars

\* C18: a start that passed the flow-state validation and whose
\* adapter.start_conversation raises fails with BotError, leaves the flow
\* state ERROR, creates no session and records no conversation id for the
\* user (the record keeps the id it had, none for a new record).
C18_EngineFailureAtStart ==
    [][\A u \in Users, p \in Presets, tp \in Topics :
          (/\ ServiceStart(u, p, tp, FALSE)
           /\ ~start_rejected(get_user_state(user_states, u, now)[u]))
          => /\ last' = Result("start_conversation", "BotError", u, NoConv)
             /\ user_states'[u].state.value = "error"
             /\ user_states'[u].conversation_id =
                    get_user_state(user_states, u, now)[u].conversation_id
             /\ user_states'[u].selected_topic = tp
             /\ conversations' = conversations]_vars

C18_Witness ==
    /\ last = Result("start_conversation", "BotError", "u1", NoConv)
    /\ Known("u1")
    /\ user_states["u1"].state = StrConst("error")
    /\ user_states["u1"].selected_topic = "X"
    /\ user_states["u1"].conversation_id = NoConv

C20_Reclassified(event) ==
    IF event.event_type = "agent_message"
    THEN IF event.role = "user" THEN "user_message"
         ELSE IF event.role = "moderator" THEN "moderator_action"
         ELSE IF event.role = "summarizer" THEN "summary_update"
         ELSE "agent_message"
    ELSE event.event_type

C20_DrainedIsForwarded ==
    [][\A t \in 1..Len(tasks) :
          LET c == tasks[t].conversation_id
              event == Head(event_streams[c])
          IN  (/\ StreamEvent(t)
               /\ conversations[c].status = "ACTIVE"
               /\ is_in_conversation(user_states[tasks[t].user_id]))
              => sink'[c] = Append(sink[c],
                                   [event_type |-> C20_Reclassified(event),
                                    content |-> event.content,
                                    iteration |-> event.iteration])]_vars

\* C22: the hand-off between the worker thread and the consumer holds at
\* most one event: the events lab.stream() has yielded and the consumer has
\* not yet taken (handed to the loop or on the queue) never number more
\* than one.
C22_Untaken ==
    Cardinality({i \in 1..Len(loop_calls) : loop_calls[i] \in RawEvents})
    + Cardinality({i \in 1..Len(queue) : queue[i] \in RawEvents})

C22_BoundedHandoff == C22_Untaken <= 1

\* C21: stop cancels the bridge of the conversation: once stop_conversation
\* has been called for a conversation, the worker thread of its bridge is
\* no longer running its producer.
C21_StopEndsWorker ==
    \A b \in stop_called : futures[b] # "RUNNING"

\* C23: under fair scheduling the producer of every opened bridge
\* eventually leaves the executor's queue and runs (or was cancelled
\* before), however many producers are running.
C23_ProducerStarts ==
    \A b \in 1..MaxBridges :
        (b \in Bridges /\ futures[b] = "PENDING")
            ~> (b \in Bridges /\ futures[b] # "PENDING")

C25_PredicatesByState ==
    \A u \in DOMAIN user_states :
        LET st == user_states[u]
            v == st.state.value
        IN  /\ can_start_new_conversation(st)
                   <=> v \in {"idle", "entering_topic", "conversation_ended",
                              "error"}
            /\ is_in_conversation(st) <=> v \in InConversationValues
            /\ is_active(st)
                   <=> v \notin {"idle", "conversation_ended", "error"}

\* C26: the reclaim of idle records never removes the record of a user who
\* is in a conversation (flow state IN_CONVERSATION, WAITING_FOR_USER_INPUT
\* or CONVERSATION_PAUSED), however old its last activity, and changes no
\* record it keeps.
C26_ReclaimKeepsInConversation ==
    [][\A max_age \in MaxAges :
          ServiceCleanup(max_age) =>
             \A u \in DOMAIN user_states :
                 /\ user_states[u].state.value \in InConversationValues
                        => u \in DOMAIN user_states'
                 /\ u \in DOMAIN user_states'
                        => user_states'[u] = user_states[u]]_vars

\* C27: after a reclaim no running session is left that no flow state
\* references: every session that is ACTIVE or PAUSED when
\* cleanup_inactive_conversations returns is the conversation of some user
\* record.
C27_NoUnreferencedSession ==
    [][\A max_age \in MaxAges :
          ServiceCleanup(max_age) =>
             \A c \in ConvIds :
                 conversations'[c].status \in {"ACTIVE", "PAUSED"}
                 => \E u \in DOMAIN user_states' :
                        user_states'[u].conversation_id = c]_vars

\* C28: every mutation of a user's record sets last_activity to the time of
\* the mutation: in every step a record that is created or changed has
\* last_activity equal to the current time afterwards, and the last_activity
\* of a record never decreases.
C28_ActivityOnMutation ==
    [][\A u \in DOMAIN user_states' :
          /\ (u \notin DOMAIN user_states \/ user_states'[u] # user_states[u])
                 => user_states'[u].last_activity = now
          /\ u \in DOMAIN user_states
                 => user_states'[u].last_activity
                        >= user_states[u].last_activity]_vars

C28_Witness ==
    \E u \in DOMAIN user_states :
        /\ now = MaxTime
        /\ user_states[u].last_activity = now
        /\ user_states[u].conversation_id # NoConv
        /\ user_states[u].state = StrConst("conversation_paused")

\* C29: a pause is accepted only in flow state IN_CONVERSATION or
\* WAITING_FOR_USER_INPUT and leaves the flow state CONVERSATION_PAUSED; a
\* stop is accepted only in IN_CONVERSATION, WAITING_FOR_USER_INPUT or
\* CONVERSATION_PAUSED and leaves it CONVERSATION_ENDED; a request that is
\* not accepted changes neither the record nor the sessions.
C29_PauseStopByState ==
    [][\A u \in Users :
          LET d0 == get_user_state(user_states, u, now)[u]
              v == d0.state.value
          IN  /\ ServicePause(u) =>
                    IF pause_accepted(d0)
                    THEN /\ v \in {"in_conversation", "waiting_for_user_input"}
                         /\ user_states'[u].state.value = "conversation_paused"
                    ELSE user_states'[u] = d0 /\ conversations' = conversations
              /\ (\E tc \in BOOLEAN : ServiceStop(u, tc)) =>
                    IF stop_accepted(d0)
                    THEN /\ v \in InConversationValues
                         /\ user_states'[u].state.value = "conversation_ended"
                    ELSE user_states'[u] = d0 /\ conversations' = conversations]_vars

\* C30: /start issued in a flow state other than CONVERSATION_ENDED, ERROR
\* or IDLE discards neither the user's flow state nor the conversation id.
C30_StartCommandKeepsConversation ==
    [][\A u \in Users :
          (/\ StartCommand(u)
           /\ Known(u)
           /\ user_states[u].state.value
                  \notin {"conversation_ended", "error", "idle"})
          => /\ user_states'[u].state = user_states[u].state
             /\ user_states'[u].conversation_id
                    = user_states[u].conversation_id]_vars

\* C31: reset of a flow state record, from any state the program reaches and
\* at any time, gives state IDLE with preset, topic and conversation id
\* unset and metadata empty, the freshly created record apart from
\* last_activity; a second reset changes nothing but last_activity.
C31_Apart(st) == [st EXCEPT !.last_activity = 0]

C31_ResetIsFresh ==
    \A u \in DOMAIN user_states : \A t \in 0..MaxTime :
        LET r == reset(user_states[u], t) IN
        /\ r.state = EnumMember("idle")
        /\ r.selected_preset = None
        /\ r.selected_topic = None
        /\ r.conversation_id = NoConv
        /\ r.metadata = {}
        /\ r.last_activity = t
        /\ C31_Apart(r) = C31_Apart(UserConversationState(t))
        /\ reset_user_state(user_states, u, t)[u] = r
        /\ \A t2 \in t..MaxTime : C31_Apart(reset(r, t2)) = C31_Apart(r)
        /\ reset(r, t) = r

C31_Witness ==
    \E u \in DOMAIN user_states :
        /\ user_states[u].state # EnumMember("idle")
        /\ user_states[u].selected_preset # None
        /\ user_states[u].selected_topic # None
        /\ user_states[u].conversation_id # NoConv
        /\ user_states[u].metadata # {}
        /\ user_states[u].last_activity < now

\* C32: get_user_state creates an IDLE record on the first reference to a
\* user and returns the record already there on every later one: a lookup
\* leaves an existing record and the records of the other users as they
\* are, and the registry holds one record per user id.
C32_LookupKeepsRecord ==
    \A u \in Users : \A t \in 0..MaxTime :
        LET us2 == get_user_state(user_states, u, t) IN
        /\ DOMAIN us2 = DOMAIN user_states \cup {u}
        /\ \A k \in DOMAIN user_states : us2[k] = user_states[k]
        /\ u \notin DOMAIN user_states => us2[u] = UserConversationState(t)
        /\ \A t2 \in t..MaxTime : get_user_state(us2, u, t2) = us2

\* A refused resume, which only looked the record up, on a record that is
\* neither IDLE nor freshly stamped.
C32_Witness ==
    /\ last = Result("resume_conversation", "BotError", "u1", NoConv)
    /\ "u1" \in DOMAIN user_states
    /\ user_states["u1"].state # EnumMember("idle")
    /\ user_states["u1"].conversation_id # NoConv
    /\ user_states["u1"].last_activity < now

\* C33: a start_conversation call rejected because the user cannot start
\* leaves the user's flow state, selected preset, selected topic and
\* conversation id as they were before the call.
C33_RejectedStartKeepsState ==
    [][\A u \in DOMAIN user_states :
          (/\ start_rejected(user_states[u])
           /\ user_states[u].conversation_id # NoConv
           /\ last' = Result("start_conversation", "BotError", u, NoConv))
          => /\ user_states'[u].state = user_states[u].state
             /\ user_states'[u].selected_preset = user_states[u].selected_preset
             /\ user_states'[u].selected_topic = user_states[u].selected_topic
             /\ user_states'[u].conversation_id = user_states[u].conversation_id]_vars

\* C34: when pause_conversation, resume_conversation, stop_conversation or
\* handle_user_input fails (the test of the flow state fails, there is no
\* conversation id, or the adapter call raises), the user's flow state and
\* the registered streaming tasks are as before the call and no streaming
\* task was cancelled.
C34_PauseFails(st) ==
    \/ ~is_in_conversation(st)
    \/ st.conversation_id = NoConv
    \/ ~base_pause_allowed(conversations[st.conversation_id].status)

C34_ResumeFails(st) ==
    \/ st.state # StrConst("conversation_paused")
    \/ st.conversation_id = NoConv
    \/ ~base_resume_allowed(conversations[st.conversation_id].status)

C34_StopFails(st) ==
    \/ ~is_in_conversation(st)
    \/ st.conversation_id = NoConv

C34_InputFails(st) ==
    \/ st.state # StrConst("waiting_for_user_input")
    \/ st.conversation_id = NoConv
    \/ ~base_post_allowed(conversations[st.conversation_id].status)

C34_FailedCall(u) ==
    LET st == get_user_state(user_states, u, now)[u] IN
    \/ C34_PauseFails(st) /\ ServicePause(u)
    \/ C34_ResumeFails(st) /\ ServiceResume(u)
    \/ C34_StopFails(st) /\ \E cancelled \in BOOLEAN : ServiceStop(u, cancelled)
    \/ C34_InputFails(st) /\ \E text \in Texts : ServiceHandleUserInput(u, text)

C34_FailureChangesNothing ==
    [][\A u \in Users :
          C34_FailedCall(u)
          => /\ user_states' = get_user_state(user_states, u, now)
             /\ streaming_tasks' = streaming_tasks
             /\ tasks' = tasks]_vars

\* A resume that failed on the flow state, for a user whose session would
\* refuse a pause as well, while a streaming task of the user's
\* conversation is registered and running.
C34_Witness ==
    \E u \in DOMAIN user_states :
        /\ is_in_conversation(user_states[u])
        /\ user_states[u].conversation_id # NoConv
        /\ ~base_pause_allowed(conversations[user_states[u].conversation_id].status)
        /\ user_states[u].conversation_id \in DOMAIN streaming_tasks
        /\ tasks[streaming_tasks[user_states[u].conversation_id]].pc = "running"
        /\ last = Result("resume_conversation", "BotError", u, NoConv)

\* C35: the cleanup of a finished or cancelled streaming task never removes
\* the entry of a different task registered for the same conversation: a
\* task that ends while _streaming_tasks[c] holds another task leaves that
\* entry in place.
C35_CleanupKeepsNewerEntry ==
    [][\A t \in 1..Len(tasks) :
          LET c == tasks[t].conversation_id IN
          (/\ tasks[t].pc # "done"
           /\ tasks'[t].pc = "done"
           /\ c \in DOMAIN streaming_tasks
           /\ streaming_tasks[c] # t)
          => /\ c \in DOMAIN streaming_tasks'
             /\ streaming_tasks'[c] = streaming_tasks[c]]_vars

\* C36: resume_conversation changes the user's flow state and the session
\* status and nothing else: it creates, registers, cancels and removes no
\* streaming task and passes nothing to the event handler.  A task that was
\* cancelled or has ended never runs again, and an event reaches the
\* handler only in a step of a running task, so after pause and resume
\* events arrive again only once start_conversation_streaming made a task.
C36_ResumeLeavesStreaming ==
    [][/\ \A u \in Users :
             ServiceResume(u)
             => /\ tasks' = tasks
                /\ streaming_tasks' = streaming_tasks
                /\ sink' = sink
                /\ event_streams' = event_streams
       /\ \A t \in 1..Len(tasks) :
             tasks[t].pc \in {"cancelled", "done"}
             => tasks'[t].pc \in {"cancelled", "done"}
       /\ \A c \in ConvIds :
             sink'[c] # sink[c]
             => \E t \in 1..Len(tasks) : /\ tasks[t].conversation_id = c
                                         /\ tasks[t].pc = "running"
                                         /\ tasks'[t].pc = "running"]_vars

\* The conversation was paused, which cancelled its streaming task, and then
\* resumed: the session is ACTIVE again with no task registered or running.
C36_Witness ==
    \E c \in ConvIds :
        /\ last = Result("resume_conversation", "None", "u1", c)
        /\ conversations[c].status = "ACTIVE"
        /\ c \notin DOMAIN streaming_tasks
        /\ \E t \in 1..Len(tasks) : tasks[t].conversation_id = c
        /\ \A t \in 1..Len(tasks) :
               tasks[t].conversation_id = c => tasks[t].pc \in {"cancelled", "done"}

\* C37: a text message handled by handle_message is accepted by
\* handle_user_input and posted to the engine exactly when the sender's
\* flow state is WAITING_FOR_INPUT: the message of a user who was handed
\* the turn is accepted.
C37_HandedTurn(st) ==
    /\ st.state = StrConst("waiting_for_user_input")
    /\ st.conversation_id # NoConv
    /\ conversations[st.conversation_id].status = "ACTIVE"

C37_MessageAcceptedWhenWaiting ==
    [][\A u \in DOMAIN user_states, text \in Texts, ok \in BOOLEAN :
          HandleMessage(u, text, ok)
          => LET accepted == last' = Result("handle_user_input", "True", u,
                                            user_states[u].conversation_id)
             IN  /\ accepted
                     => user_states[u].state.value = "waiting_for_user_input"
                 /\ C37_HandedTurn(user_states[u]) => accepted]_vars

\* C38: the record that ConversationService.start_conversation writes is
\* the record the /pause, /resume and /stop handlers read: whenever one of
\* them runs for a user, the flow state and the conversation id it sees are
\* those of the service's record, so /pause on a conversation started
\* through the service pauses it.
C38_Seen(us, u) ==
    LET st == get_user_state(us, u, now)[u] IN
    <<st.state.value, st.conversation_id>>

C38_CommandsSeeServiceRecord ==
    [][\A u \in DOMAIN user_states :
          LET c == user_states[u].conversation_id IN
          /\ (/\ c # NoConv
              /\ \/ CommandPause(u)
                 \/ CommandResume(u)
                 \/ \E cancelled \in BOOLEAN : CommandStop(u, cancelled))
             => C38_Seen(handler_states, u) = C38_Seen(user_states, u)
          /\ (/\ c # NoConv
              /\ user_states[u].state.value = "in_conversation"
              /\ conversations[c].status = "ACTIVE"
              /\ CommandPause(u))
             => conversations'[c].status = "PAUSED"]_vars

\* C39: an operation of the service or of the state manager invoked for
\* user u (start, pause, resume, stop, input, streaming and the handling of
\* its events, /start with its reset) leaves the records of all other users
\* as they are, creates a record for u at most, and changes or unregisters
\* no streaming task of another user's conversation.
C39_OperationFor(u) ==
    \/ \E p \in Presets, tp \in Topics, ok \in BOOLEAN : ServiceStart(u, p, tp, ok)
    \/ ServiceStartStreaming(u)
    \/ ServicePause(u)
    \/ ServiceResume(u)
    \/ \E cancelled \in BOOLEAN : ServiceStop(u, cancelled)
    \/ \E text \in Texts : ServiceHandleUserInput(u, text)
    \/ StartCommand(u)
    \/ SetUserState(u, EnumMember("in_conversation"))
    \/ \E t \in 1..Len(tasks) :
          /\ tasks[t].user_id = u
          /\ TaskStart(t) \/ StreamEvent(t) \/ StreamFinish(t)

C40_Positions(es, event_type) ==
    {i \in 1..Len(es) : es[i].event_type = event_type}

C40_RunEventOrder ==
    \A c \in ConvIds :
        LET es == event_streams[c] IN
        /\ C40_Positions(es, "conversation_started") = (IF es = <<>> THEN {} ELSE {1})
        /\ C40_Positions(es, "conversation_completed") \subseteq {Len(es)}
        /\ \/ C40_Positions(es, "conversation_completed") = {}
           \/ C40_Positions(es, "error") = {}
        /\ running_tasks[c] = "start" => es = <<>>

\* A run that relayed engine events and then completed.
C40_Witness ==
    \E c \in ConvIds :
        /\ Len(event_streams[c]) >= 3
        /\ event_streams[c][Len(event_streams[c])].event_type = "conversation_completed"
        /\ running_tasks[c] = "done"

====
